---------------------------- MODULE Spec2Model ----------------------------
(***************************************************************************)
(* rmt::Graph (graph.cpp) and the remesh sample application (remesh.cpp).  *)
(*                                                                         *)
(* Conventions.  C++ containers are 0-based, TLA+ sequences are 1-based:   *)
(* element i of a C++ vector x is x[i + 1] here (operator At).  A point is *)
(* a triple of integers; the point layouts used as inputs only contain     *)
(* points whose pairwise Euclidean distances are integers, so that Norm    *)
(* (the integer square root of the squared length) is exact on them.       *)
(***************************************************************************)
EXTENDS Integers, Sequences, FiniteSets, TLC

(***************************************************************************)
(* Bounds of the model.                                                    *)
(***************************************************************************)
MaxVerts == 5
MaxTris == 2
MaxArgs == 3
NumAppMeshes == 2
MaxLowTris == 1

VARIABLES
    V,          \* the caller's point array (Eigen::MatrixXd, one row per point)
    F,          \* the caller's triangle array (Eigen::MatrixXi, one row per triangle)
    ctor,       \* which constructor built the graph ("none" before construction)
    argV,       \* the point array as it was when the constructor ran
    argF,       \* the triangle array as it was when the constructor ran
    m_Verts,    \* Graph::m_Verts
    m_Idxs,     \* Graph::m_Idxs
    m_Adjs,     \* Graph::m_Adjs, pairs <<node, weight>>
    labels,     \* the vector the last ConnectedComponents() call returned
    cc,         \* the locals of a running ConnectedComponents() call
    app         \* the remesh application: its arguments, position and effects

gvars == <<V, F, ctor, argV, argF, m_Verts, m_Idxs, m_Adjs>>
vars == <<gvars, labels, cc, app>>

(***************************************************************************)
(* Helpers for 0-based containers and for points.                          *)
(***************************************************************************)
At(x, i) == x[i + 1]

Min(a, b) == IF a < b THEN a ELSE b
Max(a, b) == IF a < b THEN b ELSE a
Abs(a) == IF a < 0 THEN -a ELSE a

\* (CurVert - OVert).norm(): the Euclidean length, as the integer square root
\* of the squared length.  |d|_2 <= |d|_1 bounds the search.
Norm(p, q) ==
    LET dx == p[1] - q[1]
        dy == p[2] - q[2]
        dz == p[3] - q[3]
        sq == dx * dx + dy * dy + dz * dz
    IN  CHOOSE r \in 0..(Abs(dx) + Abs(dy) + Abs(dz)) :
            r * r <= sq /\ (r + 1) * (r + 1) > sq

\* operator< of std::pair<int, int>
EdgeLess(a, b) == a[1] < b[1] \/ (a[1] = b[1] /\ a[2] < b[2])

(***************************************************************************)
(* Graph::Graph(V, F)                                                      *)
(***************************************************************************)
\* m_Verts[i] = V.row(i).segment<3>(0)
CopyVerts(P) == [i \in 1..Len(P) |-> <<P[i][1], P[i][2], P[i][3]>>]

\* The six emplace_back calls for triangle row t.
RowEdges(t) ==
    << <<Min(t[1], t[2]), Max(t[1], t[2])>>,
       <<Min(t[2], t[3]), Max(t[2], t[3])>>,
       <<Min(t[3], t[1]), Max(t[3], t[1])>>,
       <<Max(t[1], t[2]), Min(t[1], t[2])>>,
       <<Max(t[2], t[3]), Min(t[2], t[3])>>,
       <<Max(t[3], t[1]), Min(t[3], t[1])>> >>

RECURSIVE TriangleEdges(_)
TriangleEdges(T) ==
    IF T = <<>> THEN <<>>
    ELSE TriangleEdges(SubSeq(T, 1, Len(T) - 1)) \o RowEdges(T[Len(T)])

\* std::sort(Edges.begin(), Edges.end()): insertion of each element in turn
\* behind the elements that are not greater.
InsertSorted(s, e) ==
    LET k == Cardinality({i \in 1..Len(s) : ~EdgeLess(e, s[i])})
    IN  SubSeq(s, 1, k) \o <<e>> \o SubSeq(s, k + 1, Len(s))

RECURSIVE SortEdges(_)
SortEdges(s) ==
    IF s = <<>> THEN <<>>
    ELSE InsertSorted(SortEdges(SubSeq(s, 1, Len(s) - 1)), s[Len(s)])

\* The sorted list used up to Edges.end(), the duplicates still in it.
UniqueKeepsAll(s) == s

\* std::unique: of every run of equal consecutive elements the first is kept;
\* the result is the range [begin, EEnd).
RECURSIVE Unique(_)
Unique(s) ==
    IF Len(s) <= 1 THEN s
    ELSE LET u == Unique(SubSeq(s, 1, Len(s) - 1))
         IN  IF u[Len(u)] = s[Len(s)] THEN u ELSE Append(u, s[Len(s)])

\* The streaming loop without "CurVert = m_Verts[CurNode]".
StreamStepStaleVert(st, e) ==
    LET moved == e[1] # st.CurNode
        node == IF moved THEN st.CurNode + 1 ELSE st.CurNode
        idxs == IF moved THEN [st.Idxs EXCEPT ![node + 1] = Len(st.Adjs)]
                         ELSE st.Idxs
        ONode == e[2]
        OVert == At(st.Verts, ONode)
    IN  [st EXCEPT !.CurNode = node, !.Idxs = idxs,
                   !.Adjs = Append(st.Adjs, <<ONode, Norm(st.CurVert, OVert)>>)]

\* One iteration of the streaming loop on edge e.
StreamStep(st, e) ==
    LET moved == e[1] # st.CurNode
        node == IF moved THEN st.CurNode + 1 ELSE st.CurNode
        idxs == IF moved THEN [st.Idxs EXCEPT ![node + 1] = Len(st.Adjs)]
                         ELSE st.Idxs
        vert == IF moved THEN At(st.Verts, node) ELSE st.CurVert
        ONode == e[2]
        OVert == At(st.Verts, ONode)
    IN  [st EXCEPT !.CurNode = node, !.Idxs = idxs, !.CurVert = vert,
                   !.Adjs = Append(st.Adjs, <<ONode, Norm(vert, OVert)>>)]

RECURSIVE StreamLoop(_, _)
StreamLoop(st, es) ==
    IF es = <<>> THEN st
    ELSE StreamStep(StreamLoop(st, SubSeq(es, 1, Len(es) - 1)), es[Len(es)])

\* m_Idxs.resize(nVerts + 1) ... m_Idxs[CurNode + 1] = m_Adjs.size()
StreamEdges(verts, es) ==
    LET st0 == [Verts |-> verts,
                Idxs |-> [i \in 1..(Len(verts) + 1) |-> 0],
                Adjs |-> <<>>,
                CurNode |-> 0,
                CurVert |-> At(verts, 0)]
        st == StreamLoop(st0, es)
    IN  [Verts |-> verts,
         Idxs |-> [st.Idxs EXCEPT ![st.CurNode + 2] = Len(st.Adjs)],
         Adjs |-> st.Adjs]

GraphFromTriangles(P, T) ==
    StreamEdges(CopyVerts(P), Unique(SortEdges(TriangleEdges(T))))

(***************************************************************************)
(* Graph::Graph(V, std::vector<pair>) and Graph::Graph(V, std::set<pair>)  *)
(***************************************************************************)
\* The std::set<Edge> after both emplace calls for every element of E.
RECURSIVE EdgeSetOfVector(_)
EdgeSetOfVector(E) ==
    IF E = <<>> THEN {}
    ELSE LET e == E[Len(E)]
         IN  EdgeSetOfVector(SubSeq(E, 1, Len(E) - 1))
                \cup {<<Min(e[1], e[2]), Max(e[1], e[2])>>}
                \cup {<<Max(e[1], e[2]), Min(e[1], e[2])>>}

EdgeSetOfSet(S) ==
    {<<Min(e[1], e[2]), Max(e[1], e[2])>> : e \in S}
        \cup {<<Max(e[1], e[2]), Min(e[1], e[2])>> : e \in S}

\* Iteration of a std::set<Edge> from begin() to end(): increasing order.
RECURSIVE SetOrder(_)
SetOrder(S) ==
    IF S = {} THEN <<>>
    ELSE LET m == CHOOSE x \in S : \A y \in S : ~EdgeLess(y, x)
         IN  <<m>> \o SetOrder(S \ {m})

GraphFromEdgeVector(P, E) ==
    StreamEdges(CopyVerts(P), SetOrder(EdgeSetOfVector(E)))

GraphFromEdgeSet(P, S) ==
    StreamEdges(CopyVerts(P), SetOrder(EdgeSetOfSet(S)))

(***************************************************************************)
(* Queries                                                                 *)
(***************************************************************************)
NumVertices == Len(m_Verts)
NumEdges == Len(m_Adjs) \div 2
NumAdjacents(i) == At(m_Idxs, i + 1) - At(m_Idxs, i)
\* A graph that kept a reference to the caller's array instead of a copy.
GetVertexOfCaller(i) == At(V, i)

GetVertex(i) == At(m_Verts, i)
GetAdjacent(node_i, adj_i) == At(m_Adjs, At(m_Idxs, node_i) + adj_i)

(***************************************************************************)
(* Graph::ConnectedComponents, one operator per step of its two loops.     *)
(* pc is "outer" at the test of the outer while, "inner" at the test of    *)
(* the inner while, "done" after the return.                               *)
(***************************************************************************)
RECURSIVE SumSeq(_)
SumSeq(x) == IF x = <<>> THEN 0 ELSE x[Len(x)] + SumSeq(SubSeq(x, 1, Len(x) - 1))

CCIdle == [pc |-> "idle", CC |-> <<>>, CurCC |-> 0, Visited |-> <<>>,
           Root |-> 0, Q |-> <<>>]

\* CC.resize(NumVertices(), 0); CurCC = 0; Visited.setZero()
CCEnter ==
    [pc |-> "outer",
     CC |-> [i \in 1..NumVertices |-> 0],
     CurCC |-> 0,
     Visited |-> [i \in 1..NumVertices |-> 0],
     Root |-> 0,
     Q |-> <<>>]

CCOuterTest(s) == SumSeq(s.Visited) < NumVertices

\* The for loop that finds Root without its break: the last unvisited vertex.
LastUnvisited(s) ==
    LET un == {i \in 0..(NumVertices - 1) : At(s.Visited, i) = 0}
    IN  IF un = {} THEN 0 ELSE CHOOSE i \in un : \A j \in un : i >= j

\* The for loop that finds Root, then Q.emplace(Root).
FirstUnvisited(s) ==
    LET un == {i \in 0..(NumVertices - 1) : At(s.Visited, i) = 0}
    IN  IF un = {} THEN 0 ELSE CHOOSE i \in un : \A j \in un : i <= j

CCSelectRoot(s) ==
    [s EXCEPT !.pc = "inner", !.Root = FirstUnvisited(s), !.Q = <<FirstUnvisited(s)>>]

\* An inner while whose Q.pop() comes after the test of Visited[N]: the
\* continue leaves a visited node at the front of the queue.
CCPopAfterTest(s) ==
    LET N == Head(s.Q)
        DegN == NumAdjacents(N)
    IN  IF At(s.Visited, N) # 0
        THEN s
        ELSE [s EXCEPT !.CC[N + 1] = s.CurCC,
                       !.Visited[N + 1] = 1,
                       !.Q = Tail(s.Q) \o [jj \in 1..DegN |-> GetAdjacent(N, jj - 1)[1]]]

\* One iteration of the inner while: pop, skip a visited node, else label it,
\* mark it and push its neighbours.
CCPop(s) ==
    LET N == Head(s.Q)
        DegN == NumAdjacents(N)
    IN  IF At(s.Visited, N) # 0
        THEN [s EXCEPT !.Q = Tail(s.Q)]
        ELSE [s EXCEPT !.CC[N + 1] = s.CurCC,
                       !.Visited[N + 1] = 1,
                       !.Q = Tail(s.Q) \o [jj \in 1..DegN |-> GetAdjacent(N, jj - 1)[1]]]

\* CurCC += 1
CCEndTraversal(s) == [s EXCEPT !.pc = "outer", !.CurCC = s.CurCC + 1]

CCReturn(s) == [s EXCEPT !.pc = "done"]

CCStep(s) ==
    CASE s.pc = "outer" -> IF CCOuterTest(s) THEN CCSelectRoot(s) ELSE CCReturn(s)
      [] s.pc = "inner" -> IF s.Q # <<>> THEN CCPop(s) ELSE CCEndTraversal(s)

RECURSIVE CCRun(_)
CCRun(s) == IF s.pc = "done" THEN s ELSE CCRun(CCStep(s))

\* The vector a call returns.
ConnectedComponents == CCRun(CCEnter).CC

(***************************************************************************)
(* Inputs: point layouts and triangle lists.                               *)
(***************************************************************************)
\* Marks with pairwise distinct differences: on a line no two pairs of
\* vertices are at the same distance.
Ruler == <<0, 1, 4, 10, 18, 23, 25>>

\* The point of vertex i in a layout.  "line" puts the vertices on the marks
\* of the ruler; "rectangle" folds them onto the corners of a 3 x 4 rectangle,
\* so it has coincident points from vertex 4 on.
Layouts == {"line", "rectangle"}

Layout(k, i) ==
    IF k = "line" THEN <<At(Ruler, i), 0, 0>>
    ELSE <<0, 3 * (i % 2), 4 * ((i \div 2) % 2)>>

OtherLayout(k) == IF k = "line" THEN "rectangle" ELSE "line"

PointsOf(k, n) == [i \in 1..n |-> Layout(k, i - 1)]

AscRows(n) ==
    {t \in (0..(n - 1)) \X (0..(n - 1)) \X (0..(n - 1)) : t[1] < t[2] /\ t[2] < t[3]}

RowLeq(s, t) ==
    \/ s[1] < t[1]
    \/ s[1] = t[1] /\ s[2] < t[2]
    \/ s[1] = t[1] /\ s[2] = t[2] /\ s[3] <= t[3]

\* Lists of at most MaxTris triangles over n vertices, rows in dictionary order.
AscLists(n) ==
    UNION {{s \in [1..m -> AscRows(n)] : \A i \in 1..(m - 1) : RowLeq(s[i], s[i + 1])}
            : m \in 0..MaxTris}

\* The same triangles written the other ways a caller may write them: every
\* row in the opposite winding, or the list backwards with every row rotated.
Presented(s, how) ==
    CASE how = "asc" -> s
      [] how = "desc" -> [i \in 1..Len(s) |-> <<s[i][3], s[i][2], s[i][1]>>]
      [] how = "rev" ->
            [i \in 1..Len(s) |->
                LET t == s[Len(s) + 1 - i] IN <<t[2], t[3], t[1]>>]

TriangleLists(n) == {Presented(s, how) : s \in AscLists(n), how \in {"asc", "desc", "rev"}}

\* The undirected edges of a triangle list, each as <<smaller, larger>>.
UEdges(T) ==
    UNION {{<<Min(T[i][1], T[i][2]), Max(T[i][1], T[i][2])>>,
            <<Min(T[i][2], T[i][3]), Max(T[i][2], T[i][3])>>,
            <<Min(T[i][3], T[i][1]), Max(T[i][3], T[i][1])>>} : i \in 1..Len(T)}

\* A listing of an edge set as a caller's vector: the edges in increasing
\* order rotated by rot, oriented by flip (0: smaller endpoint first, 1: larger
\* first, 2: alternating), the first dup of them repeated at the end the
\* other way round.
EdgeListing(S, rot, flip, dup) ==
    LET base == SetOrder(S)
        n == Len(base)
        turned == [i \in 1..n |-> base[((i - 1 + rot) % n) + 1]]
        swap(e) == <<e[2], e[1]>>
        oriented == [i \in 1..n |->
                        IF flip = 1 \/ (flip = 2 /\ i % 2 = 0)
                        THEN swap(turned[i]) ELSE turned[i]]
    IN  oriented \o [i \in 1..Min(dup, n) |-> swap(oriented[i])]

EdgeVectorsOf(T) ==
    IF UEdges(T) = {} THEN {<<>>}
    ELSE {EdgeListing(UEdges(T), rot, flip, rot) : rot \in 0..1, flip \in 0..2}

\* The edge sets a caller may pass for the same edges: every edge in one
\* orientation, in the other, in both, or alternating.
EdgeSetsOf(T) ==
    LET S == UEdges(T)
        swapped == {<<e[2], e[1]>> : e \in S}
        evens == {e \in S : (e[1] + e[2]) % 2 = 0}
    IN  {S, swapped, S \cup swapped,
         evens \cup {<<e[2], e[1]>> : e \in S \ evens}}

(***************************************************************************)
(* The library's life: a caller holds V and F, constructs a Graph with one *)
(* of the three constructors, and may afterwards overwrite its own arrays. *)
(***************************************************************************)
NoGraph == [Verts |-> <<>>, Idxs |-> <<>>, Adjs |-> <<>>]

\* rmtArgs as ParseArgs initialises it.
NoArgs == [InMesh |-> "", OutMesh |-> "", NumSamples |-> -1,
           Resampling |-> FALSE, Evaluate |-> FALSE]

\* The application before main runs.  -1 stands for a number not computed yet.
AppIdle == [pc |-> "idle", argv |-> <<>>, Args |-> NoArgs, exit |-> "running",
            trace |-> <<>>, loadedRows |-> -1, nVertsOrig |-> -1, FOrig |-> <<>>,
            NumCCs |-> -1, FFrows |-> -1, wmN |-> -1, evN |-> -1]

InitGraph ==
    /\ \E n \in 1..MaxVerts, k \in Layouts :
          /\ V = PointsOf(k, n)
          /\ F \in TriangleLists(n)
    /\ app = AppIdle
    /\ ctor = "none"
    /\ argV = <<>>
    /\ argF = <<>>
    /\ m_Verts = NoGraph.Verts
    /\ m_Idxs = NoGraph.Idxs
    /\ m_Adjs = NoGraph.Adjs
    /\ labels = <<>>
    /\ cc = CCIdle

Constructed(g, how) ==
    /\ m_Verts' = g.Verts
    /\ m_Idxs' = g.Idxs
    /\ m_Adjs' = g.Adjs
    /\ ctor' = how
    /\ argV' = V
    /\ argF' = F
    /\ UNCHANGED <<V, F, labels, cc, app>>

ConstructFromTriangles ==
    /\ ctor = "none"
    /\ Constructed(GraphFromTriangles(V, F), "triangles")

ConstructFromEdgeVector ==
    /\ ctor = "none"
    /\ \E E \in EdgeVectorsOf(F) : Constructed(GraphFromEdgeVector(V, E), "vector")

ConstructFromEdgeSet ==
    /\ ctor = "none"
    /\ \E S \in EdgeSetsOf(F) : Constructed(GraphFromEdgeSet(V, S), "set")

\* After construction the caller overwrites its own arrays: every point moves
\* to the other layout and the first triangle row is overwritten.
CallerOverwrites ==
    /\ ctor # "none"
    /\ V = argV
    /\ \E k \in Layouts :
          /\ V = PointsOf(k, Len(V))
          /\ V' = PointsOf(OtherLayout(k), Len(V))
    /\ F' = IF F = <<>> THEN F ELSE [F EXCEPT ![1] = <<F[1][2], F[1][2], F[1][2]>>]
    /\ UNCHANGED <<ctor, argV, argF, m_Verts, m_Idxs, m_Adjs, labels, cc, app>>

\* auto CC = Graph.ConnectedComponents(): the whole call.
CallConnectedComponents ==
    /\ ctor # "none"
    /\ cc.pc = "idle"
    /\ labels' = ConnectedComponents
    /\ UNCHANGED <<gvars, cc, app>>

Next ==
    \/ ConstructFromTriangles
    \/ ConstructFromEdgeVector
    \/ ConstructFromEdgeSet
    \/ CallerOverwrites
    \/ CallConnectedComponents

Spec == InitGraph /\ [][Next]_vars

(***************************************************************************)
(* A ConnectedComponents() call on a graph built from triangles, one step  *)
(* of its loops at a time.                                                 *)
(***************************************************************************)
StepEnter ==
    /\ ctor # "none"
    /\ cc.pc = "idle"
    /\ cc' = CCEnter
    /\ UNCHANGED <<gvars, labels, app>>

StepSelectRoot ==
    /\ cc.pc = "outer"
    /\ CCOuterTest(cc)
    /\ cc' = CCSelectRoot(cc)
    /\ UNCHANGED <<gvars, labels, app>>

StepPop ==
    /\ cc.pc = "inner"
    /\ cc.Q # <<>>
    /\ cc' = CCPop(cc)
    /\ UNCHANGED <<gvars, labels, app>>

StepEndTraversal ==
    /\ cc.pc = "inner"
    /\ cc.Q = <<>>
    /\ cc' = CCEndTraversal(cc)
    /\ UNCHANGED <<gvars, labels, app>>

StepReturn ==
    /\ cc.pc = "outer"
    /\ ~CCOuterTest(cc)
    /\ cc' = CCReturn(cc)
    /\ labels' = cc.CC
    /\ UNCHANGED <<gvars, app>>

NextCC ==
    \/ ConstructFromTriangles
    \/ StepEnter
    \/ StepSelectRoot
    \/ StepPop
    \/ StepEndTraversal
    \/ StepReturn

SpecCC == InitGraph /\ [][NextCC]_vars

\* ConnectedComponents() reads the neighbour of an adjacency entry and never
\* its weight, and the constructors sort the edges whatever the winding and
\* the order of the rows: the calls are run on the points of one layout and
\* on the triangle lists in dictionary order.
InitRun ==
    /\ InitGraph
    /\ V = PointsOf("line", Len(V))
    /\ \A i \in 1..Len(F) : F[i][1] < F[i][2] /\ F[i][2] < F[i][3]
    /\ \A i \in 1..(Len(F) - 1) : RowLeq(F[i], F[i + 1])

\* The same call on a graph built by any of the three constructors.  A call
\* that has been entered runs on: the function is sequential code, so each of
\* its steps is taken when it is the one enabled.  Nothing obliges the caller
\* to construct a graph or to make the call.
NextRun ==
    \/ ConstructFromTriangles
    \/ ConstructFromEdgeVector
    \/ ConstructFromEdgeSet
    \/ StepEnter
    \/ StepSelectRoot
    \/ StepPop
    \/ StepEndTraversal
    \/ StepReturn

RunFairness ==
    /\ WF_vars(StepSelectRoot)
    /\ WF_vars(StepPop)
    /\ WF_vars(StepEndTraversal)
    /\ WF_vars(StepReturn)

SpecRun == InitRun /\ [][NextRun]_vars /\ RunFairness

(***************************************************************************)
(* remesh.cpp: ParseArgs and ParseFromFile.  argv holds argv[1..argc-1].   *)
(* An exit is a record with the exit status: "0", "-1", or "abort" when an *)
(* exception leaves main.                                                  *)
(***************************************************************************)
Tokens == {"-h", "-f", "-o", "-r", "-e", "in.obj", "0", "-1", "2"}

CommandLines == UNION {[1..m -> Tokens] : m \in 0..MaxArgs}

\* std::stoi: a numeral converts, any other token here throws.
IsNumeral(t) == t \in {"0", "-1", "2"}
StoI(t) == CASE t = "0" -> 0 [] t = "-1" -> -1 [] t = "2" -> 2

Exit(code) == [kind |-> "exit", code |-> code]

\* std::filesystem::current_path() / path(InMesh).filename()
DefaultOutMesh(InMesh) == "./" \o InMesh

\* What a configuration file can hold.  A *_kind field tells whether the
\* attribute is absent, of the wrong JSON type, or usable.
ConfigFiles ==
    {[readable |-> FALSE], [readable |-> TRUE, wellformed |-> FALSE]}
    \cup
    [readable : {TRUE}, wellformed : {TRUE},
     input_mesh_kind : {"absent", "nonstring", "string"},
     num_samples_kind : {"absent", "noninteger"},
     num_samples : {0},
     resampling_kind : {"absent", "nonboolean", "true"},
     evaluate_kind : {"absent", "true"},
     out_mesh_kind : {"absent", "nonstring", "string"}]
    \cup
    [readable : {TRUE}, wellformed : {TRUE},
     input_mesh_kind : {"absent", "nonstring", "string"},
     num_samples_kind : {"integer"},
     num_samples : {-2, -1, 0, 2},
     resampling_kind : {"absent", "nonboolean", "true"},
     evaluate_kind : {"absent", "true"},
     out_mesh_kind : {"absent", "nonstring", "string"}]

ParseFromFile(c) ==
    IF ~c.readable THEN Exit("-1")
    ELSE IF ~c.wellformed THEN Exit("-1")
    ELSE IF c.input_mesh_kind = "absent" THEN Exit("-1")
    ELSE IF c.num_samples_kind = "absent" THEN Exit("-1")
    ELSE IF c.input_mesh_kind # "string" THEN Exit("-1")
    ELSE IF c.num_samples_kind # "integer" THEN Exit("-1")
    ELSE IF c.resampling_kind = "nonboolean" THEN Exit("-1")
    ELSE IF c.evaluate_kind = "nonboolean" THEN Exit("-1")
    ELSE IF c.out_mesh_kind = "nonstring" THEN Exit("-1")
    ELSE [kind |-> "args",
          Args |-> [InMesh |-> "in.obj",
                    NumSamples |-> c.num_samples,
                    Resampling |-> (c.resampling_kind = "true"),
                    Evaluate |-> (c.evaluate_kind = "true"),
                    OutMesh |-> IF c.out_mesh_kind = "string" THEN "out.obj"
                                ELSE DefaultOutMesh("in.obj")]]

\* The second for loop of ParseArgs, from position i on, with Args = a.
RECURSIVE ParseLoop(_, _, _)
ParseLoop(av, i, a) ==
    IF i > Len(av) THEN [kind |-> "end", Args |-> a]
    ELSE IF av[i] = "-f"
         THEN IF i = Len(av) THEN Exit("-1") ELSE [kind |-> "file", name |-> av[i + 1]]
    ELSE IF av[i] = "-o"
         THEN IF i = Len(av) THEN Exit("-1")
              ELSE ParseLoop(av, i + 2, [a EXCEPT !.OutMesh = av[i + 1]])
    ELSE IF av[i] = "-r" THEN ParseLoop(av, i + 1, [a EXCEPT !.Resampling = TRUE])
    ELSE IF av[i] = "-e" THEN ParseLoop(av, i + 1, [a EXCEPT !.Evaluate = TRUE])
    ELSE IF a.InMesh = "" THEN ParseLoop(av, i + 1, [a EXCEPT !.InMesh = av[i]])
    ELSE IF IsNumeral(av[i])
         THEN ParseLoop(av, i + 1, [a EXCEPT !.NumSamples = StoI(av[i])])
         ELSE Exit("abort")

\* ParseArgs up to the point where it returns, exits or opens the file.
ParseArgs(av) ==
    IF \E i \in 1..Len(av) : av[i] = "-h" THEN Exit("0")
    ELSE LET r == ParseLoop(av, 1, NoArgs)
         IN  IF r.kind # "end" THEN r
             ELSE IF r.Args.InMesh = "" THEN Exit("-1")
             ELSE IF r.Args.NumSamples = -1 THEN Exit("-1")
             ELSE IF r.Args.OutMesh = ""
                  THEN [kind |-> "args",
                        Args |-> [r.Args EXCEPT !.OutMesh = DefaultOutMesh(r.Args.InMesh)]]
                  ELSE [kind |-> "args", Args |-> r.Args]

(***************************************************************************)
(* remesh.cpp: main, one action per stage.  LoadMesh, ResampleMesh,        *)
(* VoronoiFPS, MeshFromVoronoi, ReorientFaces, ExportMesh, WeightMap,      *)
(* ExportWeightmap and Evaluate are library calls whose code is elsewhere: *)
(* what they return is chosen freely among the values main distinguishes.  *)
(***************************************************************************)
\* The meshes LoadMesh and ResampleMesh may produce: a fan of k triangles
\* around vertex 0 on k + 2 vertices.
AppMesh(k) == [V |-> PointsOf("line", k + 2),
               F |-> [i \in 1..k |-> <<0, i, i + 1>>]]

InitApp ==
    /\ \E av \in CommandLines : app = [AppIdle EXCEPT !.pc = "ParseArgs", !.argv = av]
    /\ V = <<>>
    /\ F = <<>>
    /\ ctor = "none"
    /\ argV = <<>>
    /\ argF = <<>>
    /\ m_Verts = NoGraph.Verts
    /\ m_Idxs = NoGraph.Idxs
    /\ m_Adjs = NoGraph.Adjs
    /\ labels = <<>>
    /\ cc = CCIdle

\* argv is not read again once ParseArgs has returned or exited.
Returned(r) ==
    IF r.kind = "args" THEN [app EXCEPT !.pc = "LoadMesh", !.Args = r.Args, !.argv = <<>>]
    ELSE [app EXCEPT !.pc = "exited", !.exit = r.code, !.argv = <<>>]

\* auto Args = ParseArgs(argc, argv)
MainParseArgs ==
    /\ app.pc = "ParseArgs"
    /\ LET r == ParseArgs(app.argv)
       IN  IF r.kind = "file"
           THEN \E c \in ConfigFiles : app' = Returned(ParseFromFile(c))
           ELSE app' = Returned(r)
    /\ UNCHANGED <<gvars, labels, cc>>

\* if (!rmt::LoadMesh(Args.InMesh, V, F)) return -1
MainLoadMesh ==
    /\ app.pc = "LoadMesh"
    /\ \/ /\ app' = [app EXCEPT !.pc = "exited", !.exit = "-1"]
          /\ UNCHANGED <<V, F>>
       \/ \E k \in 1..NumAppMeshes :
            /\ V' = AppMesh(k).V
            /\ F' = AppMesh(k).F
            /\ app' = [app EXCEPT !.pc = "Capture", !.loadedRows = Len(AppMesh(k).V)]
    /\ UNCHANGED <<ctor, argV, argF, m_Verts, m_Idxs, m_Adjs, labels, cc>>

\* int nVertsOrig = V.rows(); auto FOrig = F
MainCapture ==
    /\ app.pc = "Capture"
    /\ app' = [app EXCEPT !.pc = "Resample", !.nVertsOrig = Len(V), !.FOrig = F]
    /\ UNCHANGED <<gvars, labels, cc>>

\* if (Args.Resampling) rmt::ResampleMesh(V, F, MEL)
MainResample ==
    /\ app.pc = "Resample"
    /\ \/ /\ app.Args.Resampling
          /\ \E k \in 1..NumAppMeshes : V' = AppMesh(k).V /\ F' = AppMesh(k).F
       \/ /\ ~app.Args.Resampling
          /\ UNCHANGED <<V, F>>
    /\ app' = [app EXCEPT !.pc = "BuildGraph"]
    /\ UNCHANGED <<ctor, argV, argF, m_Verts, m_Idxs, m_Adjs, labels, cc>>

\* rmt::Graph Graph(V, F)
MainBuildGraph ==
    /\ app.pc = "BuildGraph"
    /\ LET g == GraphFromTriangles(V, F)
       IN  m_Verts' = g.Verts /\ m_Idxs' = g.Idxs /\ m_Adjs' = g.Adjs
    /\ ctor' = "triangles"
    /\ argV' = V
    /\ argF' = F
    /\ app' = [app EXCEPT !.pc = "ConnectedComponents"]
    /\ UNCHANGED <<V, F, labels, cc>>

\* auto CC = Graph.ConnectedComponents(); NumCCs = max(CC) + 1
MainConnectedComponents ==
    /\ app.pc = "ConnectedComponents"
    /\ labels' = ConnectedComponents
    /\ app' = [app EXCEPT !.pc = "Remesh",
                          !.NumCCs = 1 + Max(0, CHOOSE x \in {labels'[i] : i \in 1..Len(labels')} :
                                                    \A i \in 1..Len(labels') : labels'[i] <= x)]
    /\ UNCHANGED <<gvars, cc>>

\* VoronoiFPS, MeshFromVoronoi, ReorientFaces: FF gets some number of rows.
MainRemesh ==
    /\ app.pc = "Remesh"
    /\ \E rows \in 0..MaxLowTris :
          app' = [app EXCEPT !.pc = "ExportMesh", !.FFrows = rows,
                             !.trace = Append(app.trace, "VoronoiFPS")]
    /\ UNCHANGED <<gvars, labels, cc>>

\* if (!rmt::ExportMesh(Args.OutMesh, VV, FF)) return -1
MainExportMesh ==
    /\ app.pc = "ExportMesh"
    /\ \/ app' = [app EXCEPT !.pc = "exited", !.exit = "-1"]
       \/ app' = [app EXCEPT !.pc = "CheckFaces",
                             !.trace = Append(app.trace, "ExportMesh")]
    /\ UNCHANGED <<gvars, labels, cc>>

\* The test of FF.rows() without its return: the message, then on to the
\* weight map.
MainCheckFacesFallsThrough ==
    /\ app.pc = "CheckFaces"
    /\ app' = IF app.FFrows = 0
              THEN [app EXCEPT !.pc = "WeightMap",
                               !.trace = Append(app.trace, "NoFaceMessage")]
              ELSE [app EXCEPT !.pc = "WeightMap"]
    /\ UNCHANGED <<gvars, labels, cc>>

\* if (FF.rows() == 0) { message; return 0; }
MainCheckFaces ==
    /\ app.pc = "CheckFaces"
    /\ app' = IF app.FFrows = 0
              THEN [app EXCEPT !.pc = "exited", !.exit = "0",
                               !.trace = Append(app.trace, "NoFaceMessage")]
              ELSE [app EXCEPT !.pc = "WeightMap"]
    /\ UNCHANGED <<gvars, labels, cc>>

\* Main passes V.rows() instead of nVertsOrig.
MainWeightMapCurrentRows ==
    /\ app.pc = "WeightMap"
    /\ app' = [app EXCEPT !.pc = "Evaluate", !.wmN = Len(V),
                          !.trace = app.trace \o <<"WeightMap", "ExportWeightmap">>]
    /\ UNCHANGED <<gvars, labels, cc>>

\* auto W = rmt::WeightMap(V, VV, FF, nVertsOrig); rmt::ExportWeightmap(WMap, W)
MainWeightMap ==
    /\ app.pc = "WeightMap"
    /\ app' = [app EXCEPT !.pc = "Evaluate", !.wmN = app.nVertsOrig,
                          !.trace = app.trace \o <<"WeightMap", "ExportWeightmap">>]
    /\ UNCHANGED <<gvars, labels, cc>>

\* if (Args.Evaluate) { RescaleInsideUnitBox(V); ...; Evaluate(V, FOrig, VV, FF, nVertsOrig) }
\* RescaleInsideUnitBox moves the points of V and keeps their number.
MainEvaluate ==
    /\ app.pc = "Evaluate"
    /\ \/ /\ app.Args.Evaluate
          /\ \E k \in Layouts : V' = PointsOf(k, Len(V))
          /\ app' = [app EXCEPT !.pc = "Finish", !.evN = app.nVertsOrig,
                                !.trace = Append(app.trace, "Evaluate")]
       \/ /\ ~app.Args.Evaluate
          /\ V' = V
          /\ app' = [app EXCEPT !.pc = "Finish"]
    /\ UNCHANGED <<F, ctor, argV, argF, m_Verts, m_Idxs, m_Adjs, labels, cc>>

\* "Program terminated successfully."; return 0
MainFinish ==
    /\ app.pc = "Finish"
    /\ app' = [app EXCEPT !.pc = "exited", !.exit = "0"]
    /\ UNCHANGED <<gvars, labels, cc>>

NextApp ==
    \/ MainParseArgs
    \/ MainLoadMesh
    \/ MainCapture
    \/ MainResample
    \/ MainBuildGraph
    \/ MainConnectedComponents
    \/ MainRemesh
    \/ MainExportMesh
    \/ MainCheckFaces
    \/ MainWeightMap
    \/ MainEvaluate
    \/ MainFinish

SpecApp == InitApp /\ [][NextApp]_vars

(***************************************************************************)
(* Properties of the constructed graph.                                    *)
(***************************************************************************)
Nodes == 0..(NumVertices - 1)

\* The positions of m_Adjs that make up the neighbour range of u.
Range(u) == At(m_Idxs, u)..(At(m_Idxs, u + 1) - 1)

Occurrences(u, v) == Cardinality({k \in Range(u) : At(m_Adjs, k)[1] = v})

IsInputEdge(u, v) == u # v /\ <<Min(u, v), Max(u, v)>> \in UEdges(argF)

\* The vertices no triangle of the input uses.
Unused == {u \in Nodes : \A v \in Nodes : ~IsInputEdge(u, v)}

SqDist(p, q) ==
    (p[1] - q[1]) * (p[1] - q[1]) + (p[2] - q[2]) * (p[2] - q[2])
        + (p[3] - q[3]) * (p[3] - q[3])

\* C1: in a graph built from triangles, v occurs in the neighbour range of u
\* exactly once when {u, v} is an edge of an input triangle and not at all
\* otherwise; so adjacency is symmetric, without self-loops or duplicates.
C1_AdjacencyIsInputEdges ==
    ctor = "triangles" =>
        \A u \in Nodes, v \in Nodes :
            Occurrences(u, v) = IF IsInputEdge(u, v) THEN 1 ELSE 0

\* C2: off[0] = 0, off is non-decreasing, off[n] = |adj| = 2|E|; degrees are
\* non-negative and sum to |adj|; NumEdges() is the number of input edges.
C2_OffsetsWellFormed ==
    ctor = "triangles" =>
        /\ At(m_Idxs, 0) = 0
        /\ \A i \in Nodes : At(m_Idxs, i) <= At(m_Idxs, i + 1)
        /\ At(m_Idxs, NumVertices) = Len(m_Adjs)
        /\ Len(m_Adjs) = 2 * Cardinality(UEdges(argF))
        /\ \A i \in Nodes : NumAdjacents(i) >= 0
        /\ SumSeq([i \in 1..NumVertices |-> NumAdjacents(i - 1)]) = Len(m_Adjs)
        /\ NumEdges = Cardinality(UEdges(argF))

\* C3: every entry (v, w) in the neighbour range of u has w equal to the
\* Euclidean distance between the stored coordinates of u and of v, and the
\* weight stored for u->v equals the weight stored for v->u.
C3_WeightIsDistance ==
    ctor = "triangles" =>
        /\ \A u \in Nodes : \A k \in Range(u) :
              LET e == At(m_Adjs, k)
              IN  /\ e[2] >= 0
                  /\ e[2] * e[2] = SqDist(GetVertex(u), GetVertex(e[1]))
        /\ \A u \in Nodes : \A k \in Range(u) :
              LET v == At(m_Adjs, k)[1]
              IN  \A j \in Range(v) :
                    At(m_Adjs, j)[1] = u => At(m_Adjs, j)[2] = At(m_Adjs, k)[2]

\* A graph built from triangles that leave a vertex without incident edge,
\* with a non-empty neighbour range for such a vertex and with an edge stored
\* in both directions with a positive weight.
C3_Witness ==
    /\ ctor = "triangles"
    /\ \E u \in Unused : NumAdjacents(u) > 0
    /\ \E u \in Nodes : \E k \in Range(u) :
          /\ At(m_Adjs, k)[2] > 0
          /\ \E j \in Range(At(m_Adjs, k)[1]) : At(m_Adjs, j)[1] = u

\* C8: the graph the edge-vector and the edge-set constructors build from the
\* edges of a triangle list has the offset and adjacency arrays the triangle
\* constructor builds from the list.
C8_SameCSR ==
    ctor \in {"vector", "set"} =>
        LET g == GraphFromTriangles(argV, argF)
        IN  m_Idxs = g.Idxs /\ m_Adjs = g.Adjs /\ m_Verts = g.Verts

\* A graph built by the edge-vector constructor from two triangles that
\* share an edge.
C8_Witness ==
    /\ ctor = "vector"
    /\ Len(argF) = 2
    /\ Cardinality(UEdges(argF)) = 5
    /\ Len(m_Adjs) = 10

\* Everything the queries other than ConnectedComponents() return.
QueryValues ==
    [NumVertices |-> NumVertices,
     NumEdges |-> NumEdges,
     NumAdjacents |-> [i \in Nodes |-> NumAdjacents(i)],
     GetVertex |-> [i \in Nodes |-> GetVertex(i)],
     GetAdjacent |-> [i \in Nodes |->
                        [k \in 0..(NumAdjacents(i) - 1) |-> GetAdjacent(i, k)]]]

\* C9: once the graph is constructed, no write of the caller to its arrays
\* and no query changes what the queries return (a ConnectedComponents() call
\* returns what the call before it returned), nor the vertex, offset and
\* adjacency arrays; the vertex array is the copy taken at construction.
C9_GraphOwnsItsData ==
    [][ctor # "none" =>
            /\ QueryValues' = QueryValues
            /\ labels # <<>> => labels' = labels
            /\ m_Verts' = m_Verts /\ m_Idxs' = m_Idxs /\ m_Adjs' = m_Adjs
            /\ \A i \in Nodes : GetVertex(i)' = At(argV, i)]_vars

\* The caller has overwritten both arrays after construction and has called
\* ConnectedComponents().
C9_Witness ==
    /\ ctor # "none"
    /\ V # argV
    /\ F # argF
    /\ labels # <<>>
    /\ \E i \in Nodes : GetVertex(i) # At(V, i)

(***************************************************************************)
(* Properties of ConnectedComponents().                                    *)
(***************************************************************************)
\* The vertices a path of input edges connects to u.
RECURSIVE InputReach(_)
InputReach(S) ==
    LET T == S \cup {v \in Nodes : \E u \in S : IsInputEdge(u, v)}
    IN  IF T = S THEN S ELSE InputReach(T)

InputComponents == {InputReach({u}) : u \in Nodes}

\* The vertices a path of stored adjacency entries, taken in either
\* direction, connects to u.
StoredEdge(u, v) == Occurrences(u, v) > 0 \/ Occurrences(v, u) > 0

RECURSIVE StoredReach(_)
StoredReach(S) ==
    LET T == S \cup {v \in Nodes : \E u \in S : StoredEdge(u, v)}
    IN  IF T = S THEN S ELSE StoredReach(T)

LabelsUsed == {labels[i] : i \in 1..Len(labels)}

\* C4: the returned array has length n, its values are exactly 0..k-1 with k
\* the number of connected components, and two vertices have the same label
\* if and only if a path of edges connects them.
C4_LabelsAreComponents ==
    cc.pc = "done" =>
        /\ Len(labels) = NumVertices
        /\ LabelsUsed = 0..(Cardinality(InputComponents) - 1)
        /\ \A u \in Nodes, v \in Nodes :
              (At(labels, u) = At(labels, v)) <=> (v \in InputReach({u}))

\* C4 read on the adjacency the graph stores instead of the input's edges.
C4_LabelsAreStoredComponents ==
    cc.pc = "done" =>
        /\ Len(labels) = NumVertices
        /\ LabelsUsed = 0..(Cardinality({StoredReach({u}) : u \in Nodes}) - 1)
        /\ \A u \in Nodes, v \in Nodes :
              (At(labels, u) = At(labels, v)) <=> (v \in StoredReach({u}))

MaxOf(S) == CHOOSE x \in S : \A y \in S : y <= x
MinOf(S) == CHOOSE x \in S : \A y \in S : x <= y

LowestWithLabel(c) == MinOf({i \in Nodes : At(labels, i) = c})

\* C10, the returned numbering: vertex 0 has label 0, no label exceeds by more
\* than one the labels of the vertices before it, and a component with a
\* smaller label has a smaller lowest vertex.
C10_Numbering ==
    cc.pc = "done" =>
        /\ At(labels, 0) = 0
        /\ \A i \in Nodes \ {0} :
              At(labels, i) <= 1 + MaxOf({At(labels, j) : j \in 0..(i - 1)})
        /\ \A a \in LabelsUsed, b \in LabelsUsed :
              a < b => LowestWithLabel(a) < LowestWithLabel(b)

\* C10, the steps: a traversal starts at the lowest-indexed unvisited vertex,
\* and the counter changes only at the end of a traversal, by one.
C10_Steps ==
    /\ (cc.pc = "outer" /\ cc'.pc = "inner") =>
          /\ At(cc.Visited, cc'.Root) = 0
          /\ \A j \in 0..(cc'.Root - 1) : At(cc.Visited, j) = 1
          /\ cc'.Q = <<cc'.Root>>
    /\ cc'.CurCC # cc.CurCC =>
          /\ cc.pc = "inner" /\ cc'.pc = "outer"
          /\ cc'.CurCC = cc.CurCC + 1
    /\ (cc.pc = "inner" /\ cc'.pc = "outer") => cc'.CurCC = cc.CurCC + 1
    /\ (cc.pc = "inner" /\ cc'.pc = "inner" /\ cc'.Visited # cc.Visited) =>
          \E N \in Nodes : cc'.CC = [cc.CC EXCEPT ![N + 1] = cc.CurCC]

\* C10: ConnectedComponents() numbers the components in increasing order of
\* their lowest-indexed vertex: every traversal starts at the lowest-indexed
\* unvisited vertex, vertex 0 has label 0, label[i] <= 1 + max(label[j] : j < i)
\* for i > 0, and the label counter increases by exactly one per traversal.
C10_ComponentsNumberedInOrder == [](C10_Numbering) /\ [][C10_Steps]_vars

\* A call has returned at least three labels and some component is not a
\* run of consecutive vertices.
C10_Witness ==
    /\ cc.pc = "done"
    /\ 2 \in LabelsUsed
    /\ \E i \in Nodes, j \in Nodes :
          i < j /\ At(labels, i) > At(labels, j)

Running == cc.pc \in {"outer", "inner"}

\* C11, the states: a traversal whose queue has run empty has marked its
\* root, and on return every vertex is marked and the returned array holds
\* one label per vertex.
C11_Marked ==
    /\ (cc.pc = "inner" /\ cc.Q = <<>>) => At(cc.Visited, cc.Root) = 1
    /\ cc.pc = "done" =>
          /\ \A i \in Nodes : At(cc.Visited, i) = 1
          /\ Len(labels) = NumVertices
          /\ labels = cc.CC

\* C11, the steps: the root of a traversal is unvisited when it is chosen; a
\* visited vertex at the front of the queue is removed and nothing else
\* changes; a mark is never taken back, a label is written only together with
\* the mark of its vertex and is the current counter, so every vertex is
\* labelled at most once.
C11_Steps ==
    /\ (cc.pc = "outer" /\ cc'.pc = "inner") =>
          /\ At(cc.Visited, cc'.Root) = 0
          /\ Head(cc'.Q) = cc'.Root
    /\ (cc.pc = "inner" /\ cc.Q # <<>> /\ At(cc.Visited, Head(cc.Q)) # 0) =>
          cc' = [cc EXCEPT !.Q = Tail(cc.Q)]
    /\ Running =>
          \A i \in Nodes :
              /\ At(cc.Visited, i) = 1 =>
                    /\ At(cc'.Visited, i) = 1
                    /\ At(cc'.CC, i) = At(cc.CC, i)
              /\ (At(cc.Visited, i) = 0 /\ At(cc'.Visited, i) = 0) =>
                    At(cc'.CC, i) = At(cc.CC, i)
              /\ (At(cc.Visited, i) = 0 /\ At(cc'.Visited, i) = 1) =>
                    /\ At(cc'.CC, i) = cc.CurCC
                    /\ cc.pc = "inner" /\ Head(cc.Q) = i

\* C11: a ConnectedComponents() call that has been entered returns, on every
\* constructed graph; every traversal marks at least its root, which was
\* unvisited before; a vertex popped after it was visited is skipped without
\* relabelling; on return every vertex is marked and was labelled exactly once.
C11_Terminates ==
    /\ Running ~> (cc.pc = "done")
    /\ [](C11_Marked)
    /\ [][C11_Steps]_vars

\* A call has returned on a graph with at least three components, a vertex
\* of negative degree and an edge stored in both directions, so that a
\* visited vertex has been popped.
C11_Witness ==
    /\ cc.pc = "done"
    /\ cc.CurCC >= 3
    /\ \E i \in Nodes : NumAdjacents(i) < 0
    /\ \E u \in Nodes, v \in Nodes : Occurrences(u, v) > 0 /\ Occurrences(v, u) > 0

(***************************************************************************)
(* Properties of the remesh application.                                   *)
(***************************************************************************)
InTrace(e) == \E i \in 1..Len(app.trace) : app.trace[i] = e

\* The dual construction has run and has emitted no triangle.
NoLowTriangles == app.FFrows = 0

\* C5 as stated: when the dual construction emits no triangle, the mesh is
\* exported, the message is printed, no weight map is computed or written,
\* nothing is evaluated, and the program ends with exit status 0.
C5_NoTrianglesEndsWithZero ==
    (NoLowTriangles /\ app.pc = "exited") =>
        /\ app.exit = "0"
        /\ app.trace = <<"VoronoiFPS", "ExportMesh", "NoFaceMessage">>
        /\ app.wmN = -1
        /\ app.evN = -1

\* C5 as amended: the same when ExportMesh succeeds; when ExportMesh reports
\* failure the program ends with exit status -1 and without the message.  In
\* both cases the weight map and evaluation stages are never reached.
C5_NoTrianglesUnlessExportFails ==
    NoLowTriangles =>
        /\ app.pc \in {"ExportMesh", "CheckFaces", "exited"}
        /\ app.wmN = -1
        /\ app.evN = -1
        /\ ~InTrace("WeightMap") /\ ~InTrace("ExportWeightmap") /\ ~InTrace("Evaluate")
        /\ app.pc = "exited" =>
              IF InTrace("ExportMesh")
              THEN /\ app.exit = "0"
                   /\ app.trace = <<"VoronoiFPS", "ExportMesh", "NoFaceMessage">>
              ELSE /\ app.exit = "-1"
                   /\ app.trace = <<"VoronoiFPS">>

\* A run with evaluation requested has emitted no triangle, exported the
\* mesh, printed the message and ended with exit status 0.
C5_Witness ==
    /\ NoLowTriangles
    /\ app.pc = "exited"
    /\ app.exit = "0"
    /\ app.Args.Evaluate
    /\ InTrace("NoFaceMessage")

\* C6: an invocation whose sample count is <= 0 never builds the graph, never
\* samples, never writes an output file, and does not end with status 0.
C6_NonPositiveCountRejected ==
    (app.Args.InMesh # "" /\ app.Args.NumSamples <= 0) =>
        /\ ctor = "none"
        /\ app.trace = <<>>
        /\ app.exit # "0"

\* C7: the vertex count captured before resampling, the count passed to
\* WeightMap and the count passed to Evaluate are the number of vertices of
\* the mesh as loaded.
C7_OriginalVertexCount ==
    /\ app.nVertsOrig # -1 => app.nVertsOrig = app.loadedRows
    /\ app.wmN # -1 => app.wmN = app.loadedRows
    /\ app.evN # -1 => app.evN = app.loadedRows

\* Resampling has changed the number of vertices, and both the weight map
\* and the evaluator have been called.
C7_Witness ==
    /\ app.Args.Resampling
    /\ Len(V) # app.loadedRows
    /\ app.wmN = app.loadedRows
    /\ app.evN = app.loadedRows

=============================================================================
